---------------------------- MODULE Spec2Model ----------------------------
(***************************************************************************)
(* Model of cli/rdp-connect.py: preflight, workflow trigger/attach, the    *)
(* time-bounded poll loop with hostname extraction, and the cloudflared    *)
(* child-process lifecycle.                                                *)
(*                                                                         *)
(* Time is counted in whole seconds since start_time (line 253).  A call   *)
(* that blocks (a gh fetch, time.sleep) is one action that advances the    *)
(* clock by the call's duration.  Text is a sequence of tokens: each token *)
(* stands for one literal piece of log text (see the Log text section).    *)
(*                                                                         *)
(* Specifications: Spec is a whole invocation of main(); PollSpec is the   *)
(* poll loop alone, with fetches that take time, and PollFairSpec adds     *)
(* that every blocking call returns; ExtractSpec is extract_tunnel_url     *)
(* called alone and RdpSpec is generate_rdp_file called alone.             *)
(***************************************************************************)
EXTENDS Integers, Sequences, FiniteSets, TLC

(***************************************************************************)
(* Configuration (lines 33-37) and the other literals of the script.       *)
(***************************************************************************)
POLL_INTERVAL_SECONDS == 10
MAX_WAIT_SECONDS == 600
WAIT_TIMEOUT_SECONDS == 5
EXIT_FAILURE == 1
EXIT_SUCCESS == 0
\* Exit status of an interpreter ended by an unhandled KeyboardInterrupt.
EXIT_SIGINT == 130
\* Exit code of a process that has not ended yet.
NOT_EXITED == -1

(***************************************************************************)
(* Bounds of the model.                                                    *)
(***************************************************************************)
\* A gh fetch of the poll loop takes 0..MaxFetchDelay seconds.
MaxFetchDelay == 1
\* Run identifiers range over -1..MaxRunId (0 and a negative one included).
MaxRunId == 2
\* Interrupt signals delivered during one invocation.
MaxInterrupts == 2
\* A log text given to extract_tunnel_url alone is made of up to MaxPieces
\* pieces (single tokens and whole matching phrases).
MaxPieces == 3
\* generate_rdp_file called alone is called up to MaxFiles times, and the
\* temporary directory has room for MaxFiles names.
MaxFiles == 2

(***************************************************************************)
(* Log text.  Tokens: LABEL is the text "Tunnel URL:", FLAG the text       *)
(* "--hostname", HTTP / HTTPS the scheme prefixes "http://" / "https://",  *)
(* SP one whitespace character, SUFFIX the text ".trycloudflare.com",      *)
(* a member of HostChars one character of [a-zA-Z0-9\-], and JUNK one     *)
(* character outside all of these.                                         *)
(***************************************************************************)
LABEL == "Tunnel URL:"
FLAG == "--hostname"
HTTP == "http://"
HTTPS == "https://"
SP == " "
SUFFIX == ".trycloudflare.com"
JUNK == "#"
HostChars == {"a", "b", "-"}
Schemes == {HTTP, HTTPS}

\* Python's None (and the empty string): both are falsy at lines 272, 282.
None == <<>>

\* "--hostname" is itself made of characters of [a-zA-Z0-9\-].
IsHostChar(t) == t \in HostChars \cup {FLAG}

Min(S) == CHOOSE m \in S : \A n \in S : m <= n

RECURSIVE SkipSpace(_, _)
\* \s* from position i: the position after the whitespace run.
SkipSpace(txt, i) ==
    IF i <= Len(txt) /\ txt[i] = SP THEN SkipSpace(txt, i + 1) ELSE i

RECURSIVE SkipHost(_, _)
\* [a-zA-Z0-9\-]* from position i: the position after the run.
SkipHost(txt, i) ==
    IF i <= Len(txt) /\ IsHostChar(txt[i]) THEN SkipHost(txt, i + 1) ELSE i

\* [a-zA-Z0-9\-]+\.trycloudflare\.com at position i: the position of the
\* suffix, or 0 when the text at i does not match.
HostEnd(txt, i) ==
    LET j == SkipHost(txt, i)
    IN  IF j > i /\ j <= Len(txt) /\ txt[j] = SUFFIX THEN j ELSE 0

\* Group 1 of pattern p (1..3, in the order of lines 190-192) matched at
\* position i, or None.
GroupAt(txt, p, i) ==
    IF p = 1 THEN
        IF txt[i] # LABEL THEN None
        ELSE LET k == SkipSpace(txt, i + 1)
                 e == HostEnd(txt, k)
             IN  IF e > 0 THEN SubSeq(txt, k, e) ELSE None
    ELSE IF p = 2 THEN
        IF txt[i] # FLAG THEN None
        ELSE LET k == SkipSpace(txt, i + 1)
                 e == HostEnd(txt, k)
             IN  IF k > i + 1 /\ e > 0 THEN SubSeq(txt, k, e) ELSE None
    ELSE
        IF txt[i] \notin Schemes THEN None
        ELSE LET e == HostEnd(txt, i + 1)
             IN  IF e > 0 THEN SubSeq(txt, i, e) ELSE None

\* re.search(pattern, logs): the leftmost match of pattern p, or None.
ReSearch(txt, p) ==
    LET hits == {i \in 1..Len(txt) : GroupAt(txt, p, i) # None}
    IN  IF hits = {} THEN None ELSE GroupAt(txt, p, Min(hits))

\* re.sub(r"^https?://", "", url)
StripScheme(url) ==
    IF url # None /\ Head(url) \in Schemes THEN Tail(url) ELSE url

RECURSIVE ExtractFrom(_, _)
\* The loop of lines 194-201 from pattern p on.
ExtractFrom(txt, p) ==
    IF p > 3 THEN None
    ELSE LET m == ReSearch(txt, p)
         IN  IF m # None THEN StripScheme(m) ELSE ExtractFrom(txt, p + 1)

\* One search for the three patterns at once: the match that starts first
\* in the text is taken, whatever its pattern.
extract_tunnel_url_leftmost(txt) ==
    LET hits == {i \in 1..Len(txt) :
                    \E p \in 1..3 : GroupAt(txt, p, i) # None}
        i0 == Min(hits)
        p0 == Min({p \in 1..3 : GroupAt(txt, p, i0) # None})
    IN  IF hits = {} THEN None ELSE StripScheme(GroupAt(txt, p0, i0))

extract_tunnel_url(txt) == ExtractFrom(txt, 1)

\* Log texts a fetch may return: no match, each pattern alone, a bare URL
\* ahead of a label line, and a label line whose host carries a scheme.
LogTexts ==
    { <<>>,
      <<JUNK, "a", SP, "b">>,
      <<LABEL, SP, "a", SUFFIX>>,
      <<FLAG, SP, "b", SUFFIX>>,
      <<HTTPS, "a", SUFFIX>>,
      <<HTTP, "b", SUFFIX, JUNK, LABEL, SP, "a", "-", "b", SUFFIX>>,
      <<LABEL, SP, HTTPS, "b", SUFFIX>> }

\* The pieces of the log texts extract_tunnel_url is given alone: every
\* token, and one phrase for each pattern.
Pieces ==
    { <<LABEL>>, <<FLAG>>, <<HTTPS>>, <<SP>>, <<SUFFIX>>, <<JUNK>>,
      <<"a">>, <<"b">>,
      <<LABEL, SP, "a", SUFFIX>>,
      <<FLAG, SP, "b", SUFFIX>>,
      <<HTTP, "a", "b", SUFFIX>> }

RECURSIVE LogInputs(_)
\* The texts made of up to n pieces.
LogInputs(n) ==
    IF n = 0 THEN {<<>>}
    ELSE LET shorter == LogInputs(n - 1)
         IN  shorter \cup {t \o q : t \in shorter, q \in Pieces}

(***************************************************************************)
(* Descriptor files (lines 54-83).  A content is the sequence of its       *)
(* lines, a line the sequence of its parts; a path is the random part of   *)
(* the name tempfile.mkstemp makes, between "github-rdp-" and ".rdp".      *)
(***************************************************************************)
DEFAULT_LOCAL_PORT == 13389

Digits == <<"0", "1", "2", "3", "4", "5", "6", "7", "8", "9">>

RECURSIVE Decimal(_)
\* {port} in the f-string of line 56: the decimal digits of an integer.
Decimal(n) ==
    IF n < 10 THEN <<Digits[n + 1]>>
    ELSE Append(Decimal(n \div 10), Digits[(n % 10) + 1])

\* rdp_content (lines 56-78) for the arguments of the call.
rdp_content(host, port, username) ==
    << <<"full address:s:", host, ":">> \o Decimal(port),
       <<"username:s:", username>>,
       <<"screen mode id:i:2">>,
       <<"use multimon:i:0">>,
       <<"desktopwidth:i:1920">>,
       <<"desktopheight:i:1080">>,
       <<"session bpp:i:32">>,
       <<"authentication level:i:0">>,
       <<"prompt for credentials:i:1">>,
       <<"negotiate security layer:i:1">>,
       <<"remoteapplicationmode:i:0">>,
       <<"alternate shell:s:">>,
       <<"shell working directory:s:">>,
       <<"gatewayhostname:s:">>,
       <<"gatewayusagemethod:i:4">>,
       <<"gatewaycredentialssource:i:4">>,
       <<"gatewayprofileusagemethod:i:0">>,
       <<"promptcredentialonce:i:0">>,
       <<"use redirection server name:i:0">>,
       <<"rdgiskdcproxy:i:0">>,
       <<"kdcproxyname:s:">>,
       <<"drivestoredirect:s:">> >>

\* The names tempfile.mkstemp draws from.
TmpNames == 1..MaxFiles

\* The empty temporary directory.
NoFiles == [path \in {} |-> <<>>]

\* The temporary directory an earlier invocation left its descriptor in
\* (line 79: the file persists).
EarlierFiles ==
    [path \in {1} |-> rdp_content("localhost", DEFAULT_LOCAL_PORT,
                                  "runneradmin")]

\* A fixed name in place of tempfile.mkstemp.
mkstemp_fixed_name(files) == {1}

\* tempfile.mkstemp (line 80): a name no file of the directory has.
mkstemp(files) == TmpNames \ DOMAIN files

\* The arguments generate_rdp_file is called with alone.
Hosts == {"localhost", "127.0.0.1"}
Ports == {DEFAULT_LOCAL_PORT, 3389}
Usernames == {"runneradmin", "admin"}

(***************************************************************************)
(* State.                                                                  *)
(***************************************************************************)
VARIABLES
    pc,                 \* position of main()
    cloudflared_path,   \* TRUE when shutil.which("cloudflared") finds it
    GITHUB_TOKEN,       \* TRUE when the environment variable is set, non-empty
    args_run_id,        \* --run-id: None or <<n>>
    latency,            \* longest duration of one gh fetch, in seconds
    run_id,             \* run_id of main(): None until assigned, then <<n>>
    returncode,         \* result.returncode of the latest gh command
    conclusion,         \* status.get("conclusion") of the latest status fetch
    logs,               \* logs of main(): the text of the latest log fetch
    tunnel_url,         \* tunnel_url of main(): None or a hostname
    elapsed,            \* time.time() - start_time, in seconds
    child,              \* cloudflared_proc: "none", "running" or "exited"
    waited,             \* seconds spent in cloudflared_proc.wait(timeout=5)
    exit_code,          \* exit code of the process, NOT_EXITED while it runs
    exit_reason,        \* which statement ended the process
    outcome,            \* poll loop: POLLING, FOUND, FAILED, CANCELLED, TIMED_OUT
    platform_runs,      \* runs of the workflow on the platform, newest first
    own_run,            \* None, or <<id>> of the run this dispatch created
    dispatch_pending,   \* dispatch accepted, run not registered yet
    \* what the invocation has done so far
    checked,            \* preflight checks done, in order
    auth_requests,      \* gh auth token
    dispatch_requests,  \* gh workflow run
    list_requests,      \* gh run list
    status_fetches,     \* gh run view --json
    log_fetches,        \* gh run view --log
    fetch_ids,          \* run ids the status and log fetches were made for
    ticks,              \* iterations of the poll loop started
    resolved,           \* hostnames extract_tunnel_url returned, in order
    spawned,            \* --hostname arguments of the Popen calls, in order
    rdp_files,          \* descriptor files written
    open_attempts,      \* open_rdp_file calls
    open_ok,            \* result of open_rdp_file
    tmp_files,          \* the temporary directory: path -> content
    rdp_calls,          \* generate_rdp_file calls: arguments and result
    open_manually,      \* None, or <<path>> printed by line 333
    terminate_called,   \* cloudflared_proc.terminate() was called
    kill_called,        \* cloudflared_proc.kill() was called
    wait_timed_out,     \* wait(timeout=5) raised TimeoutExpired
    interrupts          \* KeyboardInterrupts raised so far

progVars == <<pc, run_id, returncode, conclusion, tunnel_url, elapsed, child,
              waited, exit_code, exit_reason, outcome>>
inputVars == <<cloudflared_path, GITHUB_TOKEN, args_run_id, latency>>
platformVars == <<platform_runs, own_run, dispatch_pending>>
requestVars == <<auth_requests, dispatch_requests, list_requests,
                 status_fetches, log_fetches, fetch_ids>>
pollVars == <<ticks, resolved>>
sessionVars == <<spawned, rdp_files, open_attempts, open_ok,
                 terminate_called, kill_called, wait_timed_out>>
textVars == <<logs, tmp_files, rdp_calls, open_manually>>
vars == <<progVars, inputVars, platformVars, requestVars, pollVars,
          sessionVars, textVars, checked, interrupts>>

RunIds == (0 - 1)..MaxRunId
Conclusions == {"None", "success", "failure", "cancelled"}
FetchDelays == 0..latency

\* Python truthiness of args.run_id (line 245): None and 0 are falsy.
Truthy(v) == v # None /\ v[1] # 0

\* The state main() starts its work in, the inputs left open.
Fresh ==
    /\ returncode = 0
    /\ conclusion = "None"
    /\ tunnel_url = None
    /\ elapsed = 0
    /\ child = "none"
    /\ waited = 0
    /\ exit_code = NOT_EXITED
    /\ exit_reason = "running"
    /\ outcome = "POLLING"
    /\ own_run = None
    /\ dispatch_pending = FALSE
    /\ auth_requests = 0
    /\ dispatch_requests = 0
    /\ list_requests = 0
    /\ status_fetches = 0
    /\ log_fetches = 0
    /\ fetch_ids = {}
    /\ ticks = 0
    /\ resolved = <<>>
    /\ spawned = <<>>
    /\ rdp_files = 0
    /\ open_attempts = 0
    /\ open_ok = FALSE
    /\ open_manually = None
    /\ terminate_called = FALSE
    /\ kill_called = FALSE
    /\ wait_timed_out = FALSE
    /\ interrupts = 0

\* A whole invocation, from the first statement of main(), with fetches
\* that take no time and the descriptor of an earlier invocation in the
\* temporary directory.
Init ==
    /\ Fresh
    /\ pc = "check_cloudflared"
    /\ cloudflared_path \in BOOLEAN
    /\ GITHUB_TOKEN \in BOOLEAN
    /\ args_run_id \in {None} \cup {<<n>> : n \in RunIds}
    /\ latency = 0
    /\ platform_runs \in {<<>>, <<1>>}
    /\ logs = <<>>
    /\ tmp_files = EarlierFiles
    /\ rdp_calls = <<>>
    /\ run_id = None
    /\ checked = <<>>

\* The poll loop alone, entered with a run id (line 253), with fetches that
\* take up to MaxFetchDelay seconds each.
PollInit ==
    /\ Fresh
    /\ pc = "poll_test"
    /\ cloudflared_path = TRUE
    /\ GITHUB_TOKEN = TRUE
    /\ args_run_id = <<MaxRunId>>
    /\ latency = MaxFetchDelay
    /\ platform_runs = <<>>
    /\ logs = <<>>
    /\ tmp_files = NoFiles
    /\ rdp_calls = <<>>
    /\ run_id = args_run_id
    /\ checked = <<"cloudflared", "token">>

\* extract_tunnel_url called alone, on any text of up to MaxPieces pieces.
ExtractInit ==
    /\ Fresh
    /\ pc = "extract_tunnel_url"
    /\ logs \in LogInputs(MaxPieces)
    /\ cloudflared_path = TRUE
    /\ GITHUB_TOKEN = TRUE
    /\ args_run_id = <<MaxRunId>>
    /\ latency = 0
    /\ platform_runs = <<>>
    /\ tmp_files = NoFiles
    /\ rdp_calls = <<>>
    /\ run_id = args_run_id
    /\ checked = <<"cloudflared", "token">>

\* generate_rdp_file called alone, several times, the temporary directory
\* empty before the first call.
RdpInit ==
    /\ Fresh
    /\ pc = "generate_rdp_file"
    /\ cloudflared_path = TRUE
    /\ GITHUB_TOKEN = TRUE
    /\ args_run_id = <<MaxRunId>>
    /\ latency = 0
    /\ platform_runs = <<>>
    /\ logs = <<>>
    /\ tmp_files = NoFiles
    /\ rdp_calls = <<>>
    /\ run_id = args_run_id
    /\ checked = <<"cloudflared", "token">>

\* generate_rdp_file(host, port, username) (lines 54-83): the content is
\* written to a new file of the temporary directory and its path returned.
WriteRdp(host, port, username) ==
    \E rdp_path \in mkstemp(tmp_files) :
        /\ tmp_files' =
              [path \in DOMAIN tmp_files \cup {rdp_path} |->
                  IF path = rdp_path
                     THEN rdp_content(host, port, username)
                     ELSE tmp_files[path]]
        /\ rdp_calls' = Append(rdp_calls,
              [host |-> host, port |-> port, username |-> username,
               rdp_path |-> rdp_path])

\* sys.exit(code), and the end of main(): the process ends.
SysExit(code, reason) ==
    /\ pc' = "done"
    /\ exit_code' = code
    /\ exit_reason' = reason

(***************************************************************************)
(* Preflight (lines 236-242).                                              *)
(***************************************************************************)
\* check_cloudflared that reports the missing binary and goes on.
check_cloudflared_no_exit ==
    /\ pc = "check_cloudflared"
    /\ checked' = Append(checked, "cloudflared")
    /\ pc' = "get_token"
    /\ UNCHANGED <<run_id, returncode, conclusion, tunnel_url, elapsed, child,
                   waited, exit_code, exit_reason, outcome, inputVars,
                   platformVars, requestVars, pollVars, sessionVars,
                   interrupts>>
    /\ UNCHANGED textVars

\* check_cloudflared, lines 114-123
check_cloudflared ==
    /\ pc = "check_cloudflared"
    /\ checked' = Append(checked, "cloudflared")
    /\ IF cloudflared_path
          THEN /\ pc' = "get_token"
               /\ UNCHANGED <<exit_code, exit_reason>>
          ELSE SysExit(EXIT_FAILURE, "MissingDependency")
    /\ UNCHANGED <<run_id, returncode, conclusion, tunnel_url, elapsed, child,
                   waited, outcome, inputVars, platformVars, requestVars,
                   pollVars, sessionVars, interrupts>>
    /\ UNCHANGED textVars

\* get_token, lines 102-111
get_token ==
    /\ pc = "get_token"
    /\ checked' = Append(checked, "token")
    /\ \/ /\ GITHUB_TOKEN
          /\ pc' = "trigger_or_attach"
          /\ UNCHANGED <<returncode, auth_requests, exit_code, exit_reason>>
       \/ /\ ~GITHUB_TOKEN
          /\ auth_requests' = auth_requests + 1
          /\ \E rc \in {0, 1} :
                /\ returncode' = rc
                /\ IF rc = 0
                      THEN /\ pc' = "trigger_or_attach"
                           /\ UNCHANGED <<exit_code, exit_reason>>
                      ELSE SysExit(EXIT_FAILURE, "AuthFailure")
    /\ UNCHANGED <<run_id, conclusion, tunnel_url, elapsed, child, waited,
                   outcome, inputVars, platformVars, dispatch_requests,
                   list_requests, status_fetches, log_fetches, fetch_ids,
                   pollVars, sessionVars, interrupts>>
    /\ UNCHANGED textVars

(***************************************************************************)
(* Trigger or attach (lines 244-249, 129-161).                             *)
(***************************************************************************)
\* lines 245-247: a truthy --run-id is used as it is
attach ==
    /\ pc = "trigger_or_attach"
    /\ Truthy(args_run_id)
    /\ run_id' = args_run_id
    /\ pc' = "poll_test"
    /\ UNCHANGED <<returncode, conclusion, tunnel_url, elapsed, child, waited,
                   exit_code, exit_reason, outcome, inputVars, platformVars,
                   requestVars, pollVars, sessionVars, checked, interrupts>>
    /\ UNCHANGED textVars

\* trigger_workflow, lines 131-140: the dispatch request
trigger_dispatch ==
    /\ pc = "trigger_or_attach"
    /\ ~Truthy(args_run_id)
    /\ dispatch_requests' = dispatch_requests + 1
    /\ \E rc \in {0, 1} :
          /\ returncode' = rc
          /\ IF rc = 0
                THEN /\ pc' = "list_runs"
                     /\ dispatch_pending' = TRUE
                     /\ UNCHANGED <<exit_code, exit_reason>>
                ELSE /\ SysExit(EXIT_FAILURE, "DispatchFailure")
                     /\ UNCHANGED dispatch_pending
    /\ UNCHANGED <<run_id, conclusion, tunnel_url, elapsed, child, waited,
                   outcome, inputVars, platform_runs, own_run, auth_requests,
                   list_requests, status_fetches, log_fetches, fetch_ids,
                   pollVars, sessionVars, checked, interrupts>>
    /\ UNCHANGED textVars

\* The platform registers the run of this invocation's dispatch within the
\* 3 s of line 140; when it does not, the run is still unregistered at the
\* listing.
platform_registers_own ==
    /\ pc = "list_runs"
    /\ dispatch_pending
    /\ dispatch_pending' = FALSE
    /\ own_run' = <<Len(platform_runs) + 1>>
    /\ platform_runs' = <<Len(platform_runs) + 1>> \o platform_runs
    /\ UNCHANGED <<progVars, inputVars, requestVars, pollVars, sessionVars,
                   checked, interrupts>>
    /\ UNCHANGED textVars

\* Someone else dispatches the same workflow during the 3 s of line 140.
platform_other_dispatch ==
    /\ pc = "list_runs"
    /\ Len(platform_runs) < MaxRunId + 1
    /\ platform_runs' = <<Len(platform_runs) + 1>> \o platform_runs
    /\ UNCHANGED <<progVars, inputVars, own_run, dispatch_pending, requestVars,
                   pollVars, sessionVars, checked, interrupts>>
    /\ UNCHANGED textVars

\* trigger_workflow, lines 143-161: list the most recent run
list_runs ==
    /\ pc = "list_runs"
    /\ list_requests' = list_requests + 1
    /\ \E rc \in {0, 1} :
          /\ returncode' = rc
          /\ IF rc # 0
                THEN /\ SysExit(EXIT_FAILURE, "ListFailure")
                     /\ UNCHANGED run_id
                ELSE IF platform_runs = <<>>
                THEN /\ SysExit(EXIT_FAILURE, "NoRun")
                     /\ UNCHANGED run_id
                ELSE /\ run_id' = <<Head(platform_runs)>>
                     /\ pc' = "poll_test"
                     /\ UNCHANGED <<exit_code, exit_reason>>
    /\ UNCHANGED <<conclusion, tunnel_url, elapsed, child, waited, outcome,
                   inputVars, platformVars, auth_requests, dispatch_requests,
                   status_fetches, log_fetches, fetch_ids, pollVars,
                   sessionVars, checked, interrupts>>
    /\ UNCHANGED textVars

(***************************************************************************)
(* Poll loop (lines 251-286).                                              *)
(***************************************************************************)
\* The loop condition with <= for <.
LoopCondition_inclusive(e) == e <= MAX_WAIT_SECONDS

\* line 256: time.time() - start_time < MAX_WAIT_SECONDS
LoopCondition(e) == e < MAX_WAIT_SECONDS

\* line 256: the while test at the top of an iteration
poll_test ==
    /\ pc = "poll_test"
    /\ IF LoopCondition(elapsed)
          THEN /\ pc' = "get_run_status"
               /\ ticks' = ticks + 1
          ELSE /\ pc' = "after_loop"
               /\ UNCHANGED ticks
    /\ UNCHANGED <<run_id, returncode, conclusion, tunnel_url, elapsed, child,
                   waited, exit_code, exit_reason, outcome, inputVars,
                   platformVars, requestVars, resolved, sessionVars, checked,
                   interrupts>>
    /\ UNCHANGED textVars

\* A failed status command taken for a failed run.
StatusConclusion_error_is_failure(rc, c) == IF rc # 0 THEN "failure" ELSE c

\* lines 171-173: a failed command yields conclusion None
StatusConclusion(rc, c) == IF rc # 0 THEN "None" ELSE c

\* The loop without the test for "cancelled".
RunOutcome_no_cancelled(c) == IF c = "failure" THEN "FAILED" ELSE "POLLING"

\* The loop ending on any conclusion of a completed run.
RunOutcome_completed_ends(c) ==
    IF c \in {"failure", "success"} THEN "FAILED"
    ELSE IF c = "cancelled" THEN "CANCELLED"
    ELSE "POLLING"

\* lines 259-266: what the loop makes of a conclusion
RunOutcome(c) ==
    IF c = "failure" THEN "FAILED"
    ELSE IF c = "cancelled" THEN "CANCELLED"
    ELSE "POLLING"

\* The loop without its break.
AfterExtract_no_break(url) == "poll_sleep"

\* lines 272-278: break when a hostname was extracted, else sleep
AfterExtract(url) == IF url # None THEN "after_loop" ELSE "poll_sleep"

\* The test after the loop made on the clock.
NoTunnelUrl_by_clock(url, e) == e >= MAX_WAIT_SECONDS

\* line 282: if not tunnel_url, at e seconds
NoTunnelUrl(url, e) == url = None

\* get_run_status (164-173) and the tests of its result (257-266)
get_run_status ==
    /\ pc = "get_run_status"
    /\ status_fetches' = status_fetches + 1
    /\ fetch_ids' = fetch_ids \cup {run_id}
    /\ \E d \in FetchDelays, rc \in {0, 1}, c \in Conclusions :
          /\ elapsed' = elapsed + d
          /\ returncode' = rc
          /\ conclusion' = StatusConclusion(rc, c)
          /\ outcome' = RunOutcome(conclusion')
          /\ IF outcome' = "FAILED"
                THEN SysExit(EXIT_FAILURE, "RunFailure")
                ELSE IF outcome' = "CANCELLED"
                THEN SysExit(EXIT_FAILURE, "RunCancelled")
                ELSE /\ pc' = "get_job_logs"
                     /\ UNCHANGED <<exit_code, exit_reason>>
    /\ UNCHANGED <<run_id, tunnel_url, child, waited, inputVars, platformVars,
                   auth_requests, dispatch_requests, list_requests,
                   log_fetches, pollVars, sessionVars, checked, interrupts>>
    /\ UNCHANGED textVars

\* get_job_logs (176-181), extract_tunnel_url and the break (269-274)
get_job_logs ==
    /\ pc = "get_job_logs"
    /\ log_fetches' = log_fetches + 1
    /\ fetch_ids' = fetch_ids \cup {run_id}
    /\ \E d \in FetchDelays, rc \in {0, 1}, text \in LogTexts :
          LET url == extract_tunnel_url(logs')
          IN  /\ logs' = (IF rc # 0 THEN <<>> ELSE text)
              /\ elapsed' = elapsed + d
              /\ returncode' = rc
              /\ tunnel_url' = url
              /\ pc' = AfterExtract(url)
              /\ IF url # None
                    THEN /\ resolved' = Append(resolved, url)
                         /\ outcome' = "FOUND"
                    ELSE UNCHANGED <<resolved, outcome>>
    /\ UNCHANGED <<run_id, conclusion, child, waited, exit_code, exit_reason,
                   inputVars, platformVars, auth_requests, dispatch_requests,
                   list_requests, status_fetches, ticks, sessionVars,
                   checked, interrupts>>
    /\ UNCHANGED <<tmp_files, rdp_calls, open_manually>>

\* lines 276-278: time.sleep(POLL_INTERVAL_SECONDS).  status, logs and the
\* fetch results are not read again before the next iteration assigns them: the
\* model forgets them here.
poll_sleep ==
    /\ pc = "poll_sleep"
    /\ elapsed' = elapsed + POLL_INTERVAL_SECONDS
    /\ returncode' = 0
    /\ conclusion' = "None"
    /\ pc' = "poll_test"
    /\ UNCHANGED <<run_id, tunnel_url, child, waited,
                   exit_code, exit_reason, outcome, inputVars, platformVars,
                   requestVars, pollVars, sessionVars, checked, interrupts>>
    /\ logs' = <<>>
    /\ UNCHANGED <<tmp_files, rdp_calls, open_manually>>

\* lines 280-286: after the loop, by break or by the while test.  status
\* and logs are not read after the loop: the model forgets them.
after_loop ==
    /\ pc = "after_loop"
    /\ returncode' = 0
    /\ IF NoTunnelUrl(tunnel_url, elapsed)
          THEN /\ outcome' = "TIMED_OUT"
               /\ SysExit(EXIT_FAILURE, "ExtractionTimeout")
               /\ UNCHANGED conclusion
          ELSE /\ pc' = "spawn"
               /\ conclusion' = "None"
               /\ UNCHANGED <<exit_code, exit_reason, outcome>>
    /\ UNCHANGED <<run_id, tunnel_url, elapsed, child, waited, inputVars,
                   platformVars, requestVars, pollVars, sessionVars, checked,
                   interrupts>>
    /\ logs' = <<>>
    /\ UNCHANGED <<tmp_files, rdp_calls, open_manually>>

(***************************************************************************)
(* Session establishment (lines 288-337).                                  *)
(***************************************************************************)
\* lines 288-307: Popen, then the 2 s sleep
spawn ==
    /\ pc = "spawn"
    /\ spawned' = Append(spawned, tunnel_url)
    /\ child' = "running"
    /\ pc' = "liveness_check"
    /\ UNCHANGED <<run_id, returncode, conclusion, tunnel_url, elapsed, waited,
                   exit_code, exit_reason, outcome, inputVars, platformVars,
                   requestVars, pollVars, rdp_files, open_attempts, open_ok,
                   terminate_called, kill_called, wait_timed_out, checked,
                   interrupts>>
    /\ UNCHANGED textVars

\* The child process ends by itself: at once (port in use), later, or
\* after a terminate request.
child_exits ==
    /\ pc # "done"
    /\ child = "running"
    /\ child' = "exited"
    /\ UNCHANGED <<pc, run_id, returncode, conclusion, tunnel_url, elapsed,
                   waited, exit_code, exit_reason, outcome, inputVars,
                   platformVars, requestVars, pollVars, sessionVars, checked,
                   interrupts>>
    /\ UNCHANGED textVars

\* The liveness check ending the process with exit code 0.
liveness_check_exit_zero ==
    /\ pc = "liveness_check"
    /\ IF child # "running"
          THEN SysExit(EXIT_SUCCESS, "ProcessCrash")
          ELSE /\ pc' = "generate_rdp_file"
               /\ UNCHANGED <<exit_code, exit_reason>>
    /\ UNCHANGED <<run_id, returncode, conclusion, tunnel_url, elapsed, child,
                   waited, outcome, inputVars, platformVars, requestVars,
                   pollVars, sessionVars, checked, interrupts>>
    /\ UNCHANGED textVars

\* No liveness check: the descriptor is generated whatever the child does.
liveness_check_skipped ==
    /\ pc = "liveness_check"
    /\ pc' = "generate_rdp_file"
    /\ UNCHANGED <<run_id, returncode, conclusion, tunnel_url, elapsed, child,
                   waited, exit_code, exit_reason, outcome, inputVars,
                   platformVars, requestVars, pollVars, sessionVars, checked,
                   interrupts>>
    /\ UNCHANGED textVars

\* lines 309-311
liveness_check ==
    /\ pc = "liveness_check"
    /\ IF child # "running"
          THEN SysExit(EXIT_FAILURE, "ProcessCrash")
          ELSE /\ pc' = "generate_rdp_file"
               /\ UNCHANGED <<exit_code, exit_reason>>
    /\ UNCHANGED <<run_id, returncode, conclusion, tunnel_url, elapsed, child,
                   waited, outcome, inputVars, platformVars, requestVars,
                   pollVars, sessionVars, checked, interrupts>>
    /\ UNCHANGED textVars

\* lines 314-315 and generate_rdp_file (54-83)
generate_rdp_file ==
    /\ pc = "generate_rdp_file"
    /\ rdp_files' = rdp_files + 1
    /\ WriteRdp("localhost", DEFAULT_LOCAL_PORT, "runneradmin")
    /\ pc' = "open_rdp_file"
    /\ UNCHANGED <<run_id, returncode, conclusion, tunnel_url, elapsed, child,
                   waited, exit_code, exit_reason, outcome, inputVars,
                   platformVars, requestVars, pollVars, spawned,
                   open_attempts, open_ok, terminate_called, kill_called,
                   wait_timed_out, checked, interrupts>>
    /\ UNCHANGED <<logs, open_manually>>

\* What the platform's open call does (lines 90-95): it returns, or it
\* raises: CalledProcessError when the handler exits non-zero (check=True),
\* FileNotFoundError when the handler is not installed, OSError from
\* os.startfile, PermissionError when the handler cannot be executed.
OpenFailures ==
    {"CalledProcessError", "FileNotFoundError", "OSError", "PermissionError"}
OpenResults == {"returned"} \cup OpenFailures

\* A handler for the non-zero exit of the open command only.
Caught_called_process_error_only(e) == e = "CalledProcessError"

\* line 97: except Exception catches every exception of OpenFailures, all
\* of them subclasses of Exception.
Caught(e) == e \in OpenFailures

\* lines 329-333 and open_rdp_file (86-99): an exception of the platform's
\* open call is caught and turned into False, and line 333 prints the
\* path; an exception nothing catches ends the process with exit code 1.
open_rdp_file ==
    /\ pc = "open_rdp_file"
    /\ open_attempts' = open_attempts + 1
    /\ \E result \in OpenResults :
          IF result = "returned"
             THEN /\ open_ok' = TRUE
                  /\ pc' = "wait_check"
                  /\ UNCHANGED <<exit_code, exit_reason, open_manually>>
          ELSE IF Caught(result)
             THEN /\ open_ok' = FALSE
                  /\ open_manually' = <<rdp_calls[Len(rdp_calls)].rdp_path>>
                  /\ pc' = "wait_check"
                  /\ UNCHANGED <<exit_code, exit_reason>>
             ELSE /\ SysExit(EXIT_FAILURE, "OpenError")
                  /\ UNCHANGED <<open_ok, open_manually>>
    /\ UNCHANGED <<run_id, returncode, conclusion, tunnel_url, elapsed, child,
                   waited, outcome, inputVars,
                   platformVars, requestVars, pollVars, spawned, rdp_files,
                   terminate_called, kill_called, wait_timed_out, checked,
                   interrupts>>
    /\ UNCHANGED <<logs, tmp_files, rdp_calls>>

\* The wait loop without the poll() of the child.
wait_check_no_poll ==
    /\ pc = "wait_check"
    /\ pc' = "wait_sleep"
    /\ UNCHANGED <<run_id, returncode, conclusion, tunnel_url, elapsed, child,
                   waited, exit_code, exit_reason, outcome, inputVars,
                   platformVars, requestVars, pollVars, sessionVars, checked,
                   interrupts>>
    /\ UNCHANGED textVars

(***************************************************************************)
(* Final wait loop and shutdown (lines 339-355).                           *)
(***************************************************************************)
\* lines 342-344: poll() of the child; break ends main() with exit code 0
wait_check ==
    /\ pc = "wait_check"
    /\ IF child # "running"
          THEN SysExit(EXIT_SUCCESS, "ChildExited")
          ELSE /\ pc' = "wait_sleep"
               /\ UNCHANGED <<exit_code, exit_reason>>
    /\ UNCHANGED <<run_id, returncode, conclusion, tunnel_url, elapsed, child,
                   waited, outcome, inputVars, platformVars, requestVars,
                   pollVars, sessionVars, checked, interrupts>>
    /\ UNCHANGED textVars

\* line 345: time.sleep(1)
wait_sleep ==
    /\ pc = "wait_sleep"
    /\ pc' = "wait_check"
    /\ UNCHANGED <<run_id, returncode, conclusion, tunnel_url, elapsed, child,
                   waited, exit_code, exit_reason, outcome, inputVars,
                   platformVars, requestVars, pollVars, sessionVars, checked,
                   interrupts>>
    /\ UNCHANGED textVars

\* The statements the try block of lines 340-345 covers.
InTry == {"wait_check", "wait_sleep"}

\* A SIGINT arrives: KeyboardInterrupt is raised at the current statement.
\* Inside the try block it is caught at line 346; anywhere else nothing
\* catches it (open_rdp_file catches Exception only) and the process ends.
keyboard_interrupt ==
    /\ pc # "done"
    /\ interrupts < MaxInterrupts
    /\ interrupts' = interrupts + 1
    /\ IF pc \in InTry
          THEN /\ pc' = "terminate"
               /\ UNCHANGED <<exit_code, exit_reason>>
          ELSE SysExit(EXIT_SIGINT, "KeyboardInterrupt")
    /\ UNCHANGED <<run_id, returncode, conclusion, tunnel_url, elapsed, child,
                   waited, outcome, inputVars, platformVars, requestVars,
                   pollVars, sessionVars, checked>>
    /\ UNCHANGED textVars

\* line 349: cloudflared_proc.terminate()
terminate ==
    /\ pc = "terminate"
    /\ terminate_called' = TRUE
    /\ pc' = "wait"
    /\ UNCHANGED <<run_id, returncode, conclusion, tunnel_url, elapsed, child,
                   waited, exit_code, exit_reason, outcome, inputVars,
                   platformVars, requestVars, pollVars, spawned, rdp_files,
                   open_attempts, open_ok, kill_called, wait_timed_out,
                   checked, interrupts>>
    /\ UNCHANGED textVars

\* line 351: cloudflared_proc.wait(timeout=5), one second passing
wait_tick ==
    /\ pc = "wait"
    /\ child = "running"
    /\ waited < WAIT_TIMEOUT_SECONDS
    /\ waited' = waited + 1
    /\ UNCHANGED <<pc, run_id, returncode, conclusion, tunnel_url, elapsed,
                   child, exit_code, exit_reason, outcome, inputVars,
                   platformVars, requestVars, pollVars, sessionVars, checked,
                   interrupts>>
    /\ UNCHANGED textVars

\* line 351: wait returns because the child has exited
wait_returns ==
    /\ pc = "wait"
    /\ child # "running"
    /\ pc' = "finish"
    /\ UNCHANGED <<run_id, returncode, conclusion, tunnel_url, elapsed, child,
                   waited, exit_code, exit_reason, outcome, inputVars,
                   platformVars, requestVars, pollVars, sessionVars, checked,
                   interrupts>>
    /\ UNCHANGED textVars

\* line 352: wait raises TimeoutExpired
wait_timeout ==
    /\ pc = "wait"
    /\ child = "running"
    /\ waited >= WAIT_TIMEOUT_SECONDS
    /\ wait_timed_out' = TRUE
    /\ pc' = "kill"
    /\ UNCHANGED <<run_id, returncode, conclusion, tunnel_url, elapsed, child,
                   waited, exit_code, exit_reason, outcome, inputVars,
                   platformVars, requestVars, pollVars, spawned, rdp_files,
                   open_attempts, open_ok, terminate_called, kill_called,
                   checked, interrupts>>
    /\ UNCHANGED textVars

\* TimeoutExpired swallowed: no kill.
kill_skipped ==
    /\ pc = "kill"
    /\ pc' = "finish"
    /\ UNCHANGED <<run_id, returncode, conclusion, tunnel_url, elapsed, child,
                   waited, exit_code, exit_reason, outcome, inputVars,
                   platformVars, requestVars, pollVars, sessionVars, checked,
                   interrupts>>
    /\ UNCHANGED textVars

\* line 353: cloudflared_proc.kill(); SIGKILL ends a child still running
kill ==
    /\ pc = "kill"
    /\ kill_called' = TRUE
    /\ child' = "exited"
    /\ pc' = "finish"
    /\ UNCHANGED <<run_id, returncode, conclusion, tunnel_url, elapsed, waited,
                   exit_code, exit_reason, outcome, inputVars, platformVars,
                   requestVars, pollVars, spawned, rdp_files, open_attempts,
                   open_ok, terminate_called, wait_timed_out, checked,
                   interrupts>>
    /\ UNCHANGED textVars

\* lines 354-355, then main() returns
finish ==
    /\ pc = "finish"
    /\ SysExit(EXIT_SUCCESS, "Interrupted")
    /\ UNCHANGED <<run_id, returncode, conclusion, tunnel_url, elapsed, child,
                   waited, outcome, inputVars, platformVars, requestVars,
                   pollVars, sessionVars, checked, interrupts>>
    /\ UNCHANGED textVars

Next ==
    \/ check_cloudflared
    \/ get_token
    \/ attach
    \/ trigger_dispatch
    \/ platform_registers_own
    \/ platform_other_dispatch
    \/ list_runs
    \/ poll_test
    \/ get_run_status
    \/ get_job_logs
    \/ poll_sleep
    \/ after_loop
    \/ spawn
    \/ child_exits
    \/ liveness_check
    \/ generate_rdp_file
    \/ open_rdp_file
    \/ wait_check
    \/ wait_sleep
    \/ keyboard_interrupt
    \/ terminate
    \/ wait_tick
    \/ wait_returns
    \/ wait_timeout
    \/ kill
    \/ finish

Spec == Init /\ [][Next]_vars

\* The poll loop and the statements after it, up to sys.exit or to the
\* start of the session (pc = "spawn").
PollNext ==
    \/ poll_test
    \/ get_run_status
    \/ get_job_logs
    \/ poll_sleep
    \/ after_loop

PollSpec == PollInit /\ [][PollNext]_vars

\* The poll loop when every gh command and every sleep returns.
PollFairSpec == PollSpec /\ WF_vars(PollNext)

\* One call of extract_tunnel_url(logs) (lines 184-201).
extract_call ==
    /\ pc = "extract_tunnel_url"
    /\ tunnel_url' = extract_tunnel_url(logs)
    /\ pc' = "extracted"
    /\ UNCHANGED <<run_id, returncode, conclusion, elapsed, child, waited,
                   exit_code, exit_reason, outcome, inputVars, platformVars,
                   requestVars, pollVars, sessionVars, textVars, checked,
                   interrupts>>

ExtractNext == extract_call

ExtractSpec == ExtractInit /\ [][ExtractNext]_vars

\* One call of generate_rdp_file(host, port, username) (lines 54-83).
rdp_call ==
    /\ pc = "generate_rdp_file"
    /\ Len(rdp_calls) < MaxFiles
    /\ rdp_files' = rdp_files + 1
    /\ \E host \in Hosts, port \in Ports, username \in Usernames :
          WriteRdp(host, port, username)
    /\ UNCHANGED <<progVars, inputVars, platformVars, requestVars, pollVars,
                   spawned, open_attempts, open_ok, terminate_called,
                   kill_called, wait_timed_out, logs, open_manually,
                   checked, interrupts>>

RdpNext == rdp_call

RdpSpec == RdpInit /\ [][RdpNext]_vars

(***************************************************************************)
(* Properties.                                                             *)
(***************************************************************************)
FailureReasons ==
    {"MissingDependency", "AuthFailure", "DispatchFailure", "ListFailure",
     "NoRun", "RunFailure", "RunCancelled", "ExtractionTimeout",
     "ProcessCrash"}

Uncaught == exit_reason = "KeyboardInterrupt"

\* C1: the exit code is 1 when the binary is missing, no credential is
\* obtained, the dispatch fails, the listing fails or is empty, a poll sees
\* conclusion failure or cancelled, the budget elapses with no hostname, or
\* the child has exited at the liveness check; it is 0 when the interrupt
\* handler of the final wait stage has run to its end.
C1_ExitCodes ==
    pc = "done" =>
        /\ exit_reason \in FailureReasons => exit_code = 1
        /\ exit_reason = "Interrupted" => exit_code = 0
        /\ (~cloudflared_path /\ checked # <<>>) => exit_code = 1
        /\ (Len(checked) = 2 /\ ~GITHUB_TOKEN /\ returncode # 0
              /\ dispatch_requests = 0 /\ status_fetches = 0) => exit_code = 1
        /\ (dispatch_requests = 1 /\ list_requests = 0 /\ returncode # 0)
              => exit_code = 1
        /\ (list_requests = 1 /\ status_fetches = 0 /\ returncode # 0)
              => exit_code = 1
        /\ (list_requests = 1 /\ returncode = 0 /\ run_id = None)
              => exit_code = 1
        /\ conclusion \in {"failure", "cancelled"} => exit_code = 1
        /\ (~LoopCondition(elapsed) /\ tunnel_url = None /\ ~Uncaught)
              => exit_code = 1
        /\ (spawned # <<>> /\ rdp_files = 0 /\ ~Uncaught)
              => (exit_code = 1 /\ child = "exited")
        /\ (terminate_called /\ ~Uncaught) => exit_code = 0

\* C1: an interrupt in the final wait stage of a live session ended the
\* invocation with exit code 0.
C1_Witness ==
    /\ pc = "done"
    /\ exit_reason = "Interrupted"
    /\ rdp_files = 1
    /\ exit_code = 0

\* C2: at most one hostname is resolved and at most one process spawned,
\* the process gets the first hostname extracted, tunnel_url never changes
\* once set, and no status or log fetch follows the extraction.
C2_OneHostnameOneProcess ==
    /\ [](/\ Len(resolved) <= 1
          /\ Len(spawned) <= 1
          /\ (resolved # <<>> => tunnel_url = resolved[1])
          /\ (spawned # <<>> => resolved # <<>> /\ spawned[1] = resolved[1]))
    /\ [][resolved # <<>> =>
             /\ status_fetches' = status_fetches
             /\ log_fetches' = log_fetches
             /\ tunnel_url' = tunnel_url]_vars

\* C2: a process was spawned for a hostname found on the third tick.
C2_Witness ==
    /\ spawned # <<>>
    /\ status_fetches = 3
    /\ log_fetches = 3

\* C3: a status with conclusion failure (cancelled) ends the loop at that
\* tick with FAILED (CANCELLED): no log fetch on that tick, no fetch after
\* it, no hostname resolved and no process spawned.
C3_AdverseConclusionEndsLoop ==
    /\ [](conclusion \in {"failure", "cancelled"} =>
            /\ pc = "done"
            /\ exit_code = 1
            /\ outcome = (IF conclusion = "failure" THEN "FAILED"
                                                    ELSE "CANCELLED")
            /\ ticks = status_fetches
            /\ log_fetches = status_fetches - 1
            /\ tunnel_url = None
            /\ resolved = <<>>
            /\ spawned = <<>>
            /\ child = "none")
    /\ [][(conclusion \in {"failure", "cancelled"}) =>
             /\ status_fetches' = status_fetches
             /\ log_fetches' = log_fetches
             /\ resolved' = resolved
             /\ spawned' = spawned
             /\ outcome' = outcome]_vars

\* C3: the run failed on tick 2.
C3_Witness ==
    /\ outcome = "FAILED"
    /\ conclusion = "failure"
    /\ status_fetches = 2
    /\ log_fetches = 1

\* C4: with a budget of 600 s and an interval of 10 s, a tick starts if and
\* only if the elapsed time at the top of the loop is below 600 s; when no
\* hostname is found and the run does not fail, the loop ends with
\* TIMED_OUT and exit code 1, after 60 ticks when the fetches took no time.
C4_TicksWithinBudget ==
    /\ MAX_WAIT_SECONDS = 600
    /\ POLL_INTERVAL_SECONDS = 10
    /\ [][/\ ticks' \in {ticks, ticks + 1}
          /\ (ticks' = ticks + 1) <=> (pc = "poll_test" /\ elapsed < 600)]_vars
    /\ [](outcome = "TIMED_OUT" =>
            /\ pc = "done"
            /\ exit_code = 1
            /\ elapsed >= 600
            /\ status_fetches = ticks
            /\ log_fetches = ticks
            /\ elapsed >= 10 * ticks
            /\ (elapsed = 10 * ticks => ticks = 60))

\* C4: the loop timed out after 60 ticks of fetches that took no time.
C4_Witness ==
    /\ outcome = "TIMED_OUT"
    /\ ticks = 60
    /\ elapsed = 600

\* C5: no fetch or sleep of the poll loop is in progress once more than
\* 600 s have elapsed (the clock only advances inside a fetch or a sleep),
\* and the outcome is TIMED_OUT whenever the budget was exceeded.
C5_HardBudget ==
    /\ elapsed <= MAX_WAIT_SECONDS
    /\ (elapsed > MAX_WAIT_SECONDS /\ outcome # "POLLING")
          => outcome = "TIMED_OUT"

\* C6: a failed status fetch or log fetch ends neither the process nor the
\* loop: the iteration goes on with no conclusion and no hostname; a
\* failed dispatch or listing ends the process with exit code 1.
C6_FetchFailureIsNoData ==
    [][/\ (status_fetches' = status_fetches + 1 /\ returncode' # 0) =>
             /\ pc' = "get_job_logs"
             /\ conclusion' = "None"
             /\ outcome' = "POLLING"
             /\ exit_code' = NOT_EXITED
       /\ (log_fetches' = log_fetches + 1 /\ returncode' # 0) =>
             /\ pc' = "poll_sleep"
             /\ tunnel_url' = None
             /\ outcome' = "POLLING"
             /\ exit_code' = NOT_EXITED
       /\ (pc = "poll_sleep" /\ pc' # "poll_sleep") =>
             \/ pc' = "poll_test" /\ exit_code' = NOT_EXITED
             \/ interrupts' = interrupts + 1
       /\ (dispatch_requests' = dispatch_requests + 1 /\ returncode' # 0) =>
             pc' = "done" /\ exit_code' = 1
       /\ (list_requests' = list_requests + 1 /\ returncode' # 0) =>
             pc' = "done" /\ exit_code' = 1]_vars

\* C6: the status fetch of tick 2 and the log fetch of tick 1 or 2 failed
\* and the loop is about to sleep before tick 3.
C6_Witness ==
    /\ pc = "poll_sleep"
    /\ status_fetches = 2
    /\ conclusion = "None"
    /\ returncode # 0
    /\ exit_code = NOT_EXITED

\* C7: in the interrupt handler terminate comes first, wait is bounded by
\* 5 s, kill is called if and only if the child had not exited when the
\* 5 s were over, never before terminate, and the child is not running
\* when the handler ends.
C7_GracefulThenForced ==
    /\ waited <= 5
    /\ WAIT_TIMEOUT_SECONDS = 5
    /\ pc \in {"wait", "kill", "finish"} => terminate_called
    /\ wait_timed_out => waited = 5
    /\ kill_called => terminate_called /\ wait_timed_out
    /\ (pc = "finish" \/ exit_reason = "Interrupted") =>
          /\ terminate_called
          /\ kill_called <=> wait_timed_out
          /\ child # "running"

\* C7: the handler ended after a kill.
C7_Witness ==
    /\ exit_reason = "Interrupted"
    /\ kill_called
    /\ waited = 5

\* C8: when the tool has spawned the tunnel process and ends by a user
\* interrupt (at any point after the spawn) or by detecting the child's
\* exit, the child is not running.
C8_ChildNeverLeftRunning ==
    (/\ pc = "done"
     /\ spawned # <<>>
     /\ exit_reason \in {"KeyboardInterrupt", "Interrupted", "ChildExited"})
        => child # "running"

\* C9: a missing binary or a missing credential ends the process with a
\* non-zero exit code before any dispatch, listing, status fetch, log fetch
\* or spawn; the binary is checked before the credential, and nothing is
\* requested before both checks have passed.
C9_PreflightFailsFast ==
    /\ checked \in {<<>>, <<"cloudflared">>, <<"cloudflared", "token">>}
    /\ (~cloudflared_path /\ checked # <<>>) =>
          /\ pc = "done"
          /\ exit_reason = "MissingDependency"
          /\ checked = <<"cloudflared">>
          /\ auth_requests = 0
    /\ (~GITHUB_TOKEN /\ auth_requests = 1 /\ returncode # 0
          /\ dispatch_requests = 0 /\ status_fetches = 0) =>
          /\ pc = "done"
          /\ exit_reason = "AuthFailure"
    /\ exit_reason \in {"MissingDependency", "AuthFailure"} =>
          /\ pc = "done"
          /\ exit_code \notin {EXIT_SUCCESS, NOT_EXITED}
          /\ dispatch_requests = 0
          /\ list_requests = 0
          /\ status_fetches = 0
          /\ log_fetches = 0
          /\ spawned = <<>>
          /\ child = "none"
    /\ (auth_requests > 0 \/ Len(checked) = 2) => cloudflared_path
    /\ (dispatch_requests > 0 \/ list_requests > 0 \/ status_fetches > 0
          \/ log_fetches > 0 \/ spawned # <<>>) =>
          /\ checked = <<"cloudflared", "token">>
          /\ cloudflared_path
          /\ (GITHUB_TOKEN \/ auth_requests = 1)

\* C9: neither the variable nor gh auth token gave a credential.
C9_Witness ==
    /\ pc = "done"
    /\ exit_reason = "AuthFailure"
    /\ ~GITHUB_TOKEN
    /\ auth_requests = 1

\* C10: with any integer given as --run-id, no dispatch and no listing is
\* requested and every status and log fetch is made for that identifier.
C10_AttachBypassesTrigger ==
    args_run_id # None =>
        /\ dispatch_requests = 0
        /\ list_requests = 0
        /\ fetch_ids \subseteq {args_run_id}

\* The positions <<i, k, e>> of the matches of pattern p (1..3, lines
\* 190-192) in txt: the match starts at i, its hostname runs from k to the
\* suffix at e.
Matches(txt, p) ==
    LET ends == {e \in 1..Len(txt) : txt[e] = SUFFIX}
        hostStarts(e) ==
            {k \in 1..(e - 1) : \A j \in k..(e - 1) : IsHostChar(txt[j])}
        spaces(i, k) == \A j \in (i + 1)..(k - 1) : txt[j] = SP
        leads(k) ==
            {i \in 1..(k - 1) :
                \/ p = 1 /\ txt[i] = LABEL /\ spaces(i, k)
                \/ p = 2 /\ txt[i] = FLAG /\ k > i + 1 /\ spaces(i, k)
                \/ p = 3 /\ txt[i] \in Schemes /\ k = i + 1}
    IN  UNION {UNION {{<<i, k, e>> : i \in leads(k)} : k \in hostStarts(e)} :
               e \in ends}

\* C11: the hostname extracted from a text is the hostname of the leftmost
\* match of the label pattern if the label pattern matches anywhere, else
\* of the leftmost match of the --hostname pattern if that one matches
\* anywhere, else of the leftmost match of the URL pattern, else None,
\* wherever the matches stand relative to each other; a returned hostname
\* ends with the suffix, is made of hostname characters before it, and
\* does not start with a scheme.
C11_OrderedExtraction ==
    pc = "extracted" =>
        LET first == IF Matches(logs, 1) # {} THEN 1
                     ELSE IF Matches(logs, 2) # {} THEN 2
                     ELSE IF Matches(logs, 3) # {} THEN 3
                     ELSE 0
        IN  /\ first = 0 <=> tunnel_url = None
            /\ first # 0 =>
                  \E m \in Matches(logs, first) :
                      /\ \A n \in Matches(logs, first) : m[1] <= n[1]
                      /\ tunnel_url = SubSeq(logs, m[2], m[3])
            /\ tunnel_url # None =>
                  /\ Len(tunnel_url) >= 2
                  /\ tunnel_url[Len(tunnel_url)] = SUFFIX
                  /\ Head(tunnel_url) \notin Schemes
                  /\ \A j \in 1..(Len(tunnel_url) - 1) :
                        IsHostChar(tunnel_url[j])

\* C11: a URL stands before a label line in the text and the hostname of
\* the label line was returned.
C11_Witness ==
    /\ pc = "extracted"
    /\ logs = <<HTTP, "a", "b", SUFFIX, LABEL, SP, "a", SUFFIX>>
    /\ tunnel_url = <<"a", SUFFIX>>

\* C12: a call of generate_rdp_file adds exactly one file, at a path no
\* file had, and leaves every file that existed as it was; the files
\* written by calls with the same host, port and username have the same
\* content, whatever was written in between; the content has the 22 lines
\* of the template, the address first and the user name second.
C12_SameContentFreshPath ==
    [][/\ \A path \in DOMAIN tmp_files :
             /\ path \in DOMAIN tmp_files'
             /\ tmp_files'[path] = tmp_files[path]
       /\ rdp_calls' # rdp_calls =>
             LET call == rdp_calls'[Len(rdp_calls')]
                 content == tmp_files'[call.rdp_path]
             IN  /\ Len(rdp_calls') = Len(rdp_calls) + 1
                 /\ call.rdp_path \notin DOMAIN tmp_files
                 /\ DOMAIN tmp_files' = DOMAIN tmp_files \cup {call.rdp_path}
                 /\ Len(content) = 22
                 /\ content[1][1] = "full address:s:"
                 /\ content[1][2] = call.host
                 /\ SubSeq(content[1], 4, Len(content[1])) =
                       Decimal(call.port)
                 /\ content[2] = <<"username:s:", call.username>>
                 /\ \A i \in DOMAIN rdp_calls :
                       (/\ rdp_calls[i].host = call.host
                        /\ rdp_calls[i].port = call.port
                        /\ rdp_calls[i].username = call.username)
                          => tmp_files'[rdp_calls[i].rdp_path] = content]_vars

\* C12: two calls had the same arguments and the directory holds their
\* two files, with the same content.
C12_Witness ==
    /\ Len(rdp_calls) = 2
    /\ rdp_calls[1].port = rdp_calls[2].port
    /\ rdp_calls[1].host = rdp_calls[2].host
    /\ rdp_calls[1].username = rdp_calls[2].username
    /\ rdp_calls[1].rdp_path # rdp_calls[2].rdp_path
    /\ Cardinality(DOMAIN tmp_files) = 2
    /\ tmp_files[rdp_calls[1].rdp_path] = tmp_files[rdp_calls[2].rdp_path]

\* C13: when every fetch and every sleep returns, the poll loop ends; when
\* it has ended its outcome is one of FOUND, FAILED, CANCELLED, TIMED_OUT;
\* an outcome once reached is never replaced by another; the outcome is
\* FOUND exactly when a hostname was extracted, also on the last tick,
\* and TIMED_OUT only without a hostname and with the budget used up.
C13_LoopTerminates ==
    /\ <>(pc \in {"done", "spawn"})
    /\ [](pc \in {"done", "spawn"} =>
            outcome \in {"FOUND", "FAILED", "CANCELLED", "TIMED_OUT"})
    /\ [][outcome # "POLLING" => outcome' = outcome]_vars
    /\ [](outcome = "FOUND" <=> tunnel_url # None)
    /\ [](outcome = "TIMED_OUT" =>
            tunnel_url = None /\ elapsed >= MAX_WAIT_SECONDS)
    /\ [](outcome \in {"FAILED", "CANCELLED"} =>
            tunnel_url = None /\ pc = "done")

\* C13: the loop ended with the hostname found on its 60th tick.
C13_Witness ==
    /\ pc = "spawn"
    /\ outcome = "FOUND"
    /\ ticks = 60
    /\ tunnel_url # None

\* The statements of the final wait and of the shutdown (lines 339-355).
WaitStage == InTry \cup {"terminate", "wait", "kill", "finish"}

\* C14: a process is spawned only with a hostname found by the poll loop;
\* the descriptor step is entered only from a liveness check that found
\* the child running, a file is written only by the descriptor step, and
\* no file was written when the liveness check found the child exited; the open
\* handler is invoked only with a descriptor written; the final wait is
\* entered only from the open attempt.
C14_StagesDownstream ==
    [][/\ spawned' # spawned =>
             /\ pc = "spawn"
             /\ outcome = "FOUND"
             /\ tunnel_url # None
             /\ resolved # <<>>
       /\ (pc' = "generate_rdp_file" /\ pc # "generate_rdp_file") =>
             /\ pc = "liveness_check"
             /\ child = "running"
             /\ spawned # <<>>
       /\ (rdp_files' # rdp_files \/ tmp_files' # tmp_files) =>
             /\ pc = "generate_rdp_file"
             /\ rdp_files = 0
             /\ rdp_files' = 1
             /\ tmp_files = EarlierFiles
             /\ Cardinality(DOMAIN tmp_files') = 2
       /\ exit_reason' = "ProcessCrash" =>
             /\ child' = "exited"
             /\ rdp_files' = 0
             /\ tmp_files' = EarlierFiles
             /\ open_attempts' = 0
       /\ open_attempts' # open_attempts =>
             /\ pc = "open_rdp_file"
             /\ rdp_files = 1
             /\ Len(rdp_calls) = 1
             /\ rdp_calls[1].rdp_path \in DOMAIN tmp_files
       /\ (pc' \in WaitStage /\ pc \notin WaitStage) =>
             /\ pc = "open_rdp_file"
             /\ pc' = "wait_check"
             /\ open_attempts' = 1]_vars

\* C14: the final wait was entered, after one spawn, one descriptor and
\* one open attempt.
C14_Witness ==
    /\ pc = "wait_check"
    /\ Len(spawned) = 1
    /\ rdp_files = 1
    /\ open_attempts = 1

\* C15: the final wait loop is left only by the check that finds the
\* child exited, or by an interrupt; a check that finds the child exited
\* does not go on to sleep, it ends the process; and when the process
\* ended that way neither terminate nor kill was called.
C15_WaitEndsOnExitOrInterrupt ==
    [][/\ (pc \in InTry /\ pc' \notin InTry) =>
             \/ /\ pc = "wait_check"
                /\ child = "exited"
                /\ pc' = "done"
                /\ exit_reason' = "ChildExited"
                /\ interrupts' = interrupts
             \/ /\ interrupts' = interrupts + 1
                /\ pc' = "terminate"
       /\ (pc = "wait_check" /\ child = "exited" /\ pc' # pc) =>
             pc' \notin InTry
       /\ exit_reason' = "ChildExited" =>
             /\ pc' = "done"
             /\ child' = "exited"
             /\ ~terminate_called'
             /\ ~kill_called']_vars

\* C15: the child exited during the final wait and the next check ended
\* the process.
C15_Witness ==
    /\ pc = "done"
    /\ exit_reason = "ChildExited"
    /\ open_attempts = 1
    /\ ~terminate_called

\* C16: a log fetch whose text matches none of the three patterns leaves
\* no hostname and the loop goes on to sleep and to the next while test; a
\* status fetch whose conclusion is neither failure nor cancelled, success
\* included, goes on to the log fetch; and a loop that ends with no
\* hostname ever extracted and no failure or cancelled conclusion seen
\* ends with TIMED_OUT, after the budget, with one status fetch and one log
\* fetch made in every tick.
C16_NoMatchPollsUntilTimeout ==
    [][/\ (/\ log_fetches' = log_fetches + 1
           /\ \A p \in 1..3 : Matches(logs', p) = {}) =>
             /\ tunnel_url' = None
             /\ outcome' = "POLLING"
             /\ pc' = "poll_sleep"
       /\ (/\ status_fetches' = status_fetches + 1
           /\ conclusion' \notin {"failure", "cancelled"}) =>
             /\ outcome' = "POLLING"
             /\ pc' = "get_job_logs"
       /\ (pc = "poll_sleep" /\ pc' # pc) =>
             /\ pc' = "poll_test"
             /\ elapsed' = elapsed + POLL_INTERVAL_SECONDS
       /\ (/\ pc # "done"
           /\ pc' = "done"
           /\ resolved' = <<>>
           /\ outcome' \notin {"FAILED", "CANCELLED"}) =>
             /\ outcome' = "TIMED_OUT"
             /\ elapsed' >= MAX_WAIT_SECONDS
             /\ status_fetches' = ticks'
             /\ log_fetches' = ticks']_vars

\* C16: the run has concluded with success, the log text of the 60th tick
\* matches no pattern, and the loop is about to sleep.
C16_Witness ==
    /\ pc = "poll_sleep"
    /\ conclusion = "success"
    /\ logs = <<JUNK, "a", SP, "b">>
    /\ tunnel_url = None
    /\ ticks = 60

\* C17: an open attempt that fails, whatever the failure, does not end the
\* process and does not touch the child: neither terminate nor kill is
\* called, the path of the descriptor is printed, and the final wait is
\* entered with the child as it was.
C17_OpenFailureTolerated ==
    [][(open_attempts' = open_attempts + 1 /\ ~open_ok') =>
          /\ pc' = "wait_check"
          /\ exit_code' = NOT_EXITED
          /\ child' = child
          /\ ~terminate_called'
          /\ ~kill_called'
          /\ open_manually' # None
          /\ open_manually'[1] \in DOMAIN tmp_files'
          /\ tmp_files'[open_manually'[1]] =
                rdp_content("localhost", DEFAULT_LOCAL_PORT, "runneradmin")
          /\ open_manually'[1] \notin DOMAIN EarlierFiles]_vars

\* C17: the open attempt failed and the final wait goes on with the child
\* running.
C17_Witness ==
    /\ pc = "wait_sleep"
    /\ open_attempts = 1
    /\ ~open_ok
    /\ open_manually # None
    /\ child = "running"

\* C18: the run identifier trigger returned is the identifier of the run
\* the platform created for this invocation's own dispatch, whenever the
\* platform registers that run and whatever other runs it lists.
C18_TriggerReturnsOwnRun ==
    (dispatch_requests = 1 /\ run_id # None) => run_id = own_run

=============================================================================
